---- MODULE Spec2Model ----
(***************************************************************************)
(* ColdStart -> GAIA interchange conversion                                *)
(* (src/gaia_interchange/coldstart2gaia.py).                               *)
(*                                                                         *)
(* One ColdStartToGaiaConverter is built by from_parameters and its        *)
(* convert_coldstart_to_gaia is called up to MaxRuns times.  Each pass of  *)
(* the for loop over cs_kb.all_assertions is one Translate step; the       *)
(* assertion and its confidence are the knowledge base's, drawn from       *)
(* KBEntries.                                                              *)
(*                                                                         *)
(* RDF terms are triples <<kind, text, number>>:                           *)
(*   <<"BNode", "", k>>        the k-th blank node made by BNode()         *)
(*   <<"URIRef", s, -1>>       URIRef(s)                                   *)
(*   <<"Literal", s, 0>>       Literal(s) of a string s                    *)
(*   <<"LiteralNum", "", v>>   Literal(v) of a number v                    *)
(* Optional values are <<>> (None) or <<v>>.  Confidences are in tenths    *)
(* (9 is 0.9).  Ontology codes are sequences of characters.                *)
(***************************************************************************)
EXTENDS Integers, Sequences, FiniteSets, TLC

VARIABLES
    has_base_uri,             \* 'base_uri' in params (from_parameters)
    next_id,                  \* SequentialIDNodeGenerator.next_id, per generator
    bnodes,                   \* number of BNode() made so far by the process
    pc,                       \* "idle", "running", "done" (graph returned), "failed" (raised)
    g,                        \* the rdflib Graph of the current call
    object_to_uri,            \* the identity cache of the current call
    untranslatable_assertions,
    run,                      \* number of calls of convert_coldstart_to_gaia so far
    n,                        \* number of assertions taken from knowledge bases so far
    idx,                      \* position of the for loop in cs_kb.all_assertions
    last,                     \* history: the loop pass just made
    resolutions,              \* history: <<idx, node, token>> of every to_identifier return of this call
    minted,                   \* history: <<node, token>> of every token to_identifier made in this call
    side,                     \* history: <<role, token>> of every node made while translating, this call
    silent,                   \* history: per kind, passes of this call that added no triple
    start_id,                 \* history: next_id when this call began
    prev_tokens               \* history: tokens the generators made in earlier calls

vars == <<has_base_uri, next_id, bnodes, pc, g, object_to_uri, untranslatable_assertions,
          run, n, idx, last, resolutions, minted, side, silent, start_id, prev_tokens>>

MaxAssertions == 2
MaxRuns == 2

None == <<>>
Some(v) == <<v>>

(* ------------------------------ RDF terms ------------------------------ *)
BNodeTerm(k) == <<"BNode", "", k>>
URIRef(s) == <<"URIRef", s, -1>>
\* URIRef(self.base_uri + '/' + str(self.next_id))
URIRefSeq(base, k) == URIRef(base \o "/" \o ToString(k))
Literal(s) == <<"Literal", s, 0>>
LiteralNum(v) == <<"LiteralNum", "", v>>

RDF_type == URIRef("rdf:type")
RDF_Statement == URIRef("rdf:Statement")
RDF_subject == URIRef("rdf:subject")
RDF_predicate == URIRef("rdf:predicate")
RDF_object == URIRef("rdf:object")
SKOS_prefLabel == URIRef("skos:prefLabel")
AIDA_system == URIRef("aida:system")
AIDA_confidence == URIRef("aida:confidence")
AIDA_confidenceValue == URIRef("aida:confidenceValue")
AIDA_TextProvenance == URIRef("aida:TextProvenance")
AIDA_source == URIRef("aida:source")
AIDA_startOffset == URIRef("aida:startOffset")
AIDA_endOffsetInclusive == URIRef("aida:endOffsetInclusive")
AIDA_justifiedBy == URIRef("aida:justifiedBy")
AIDA_link == URIRef("aida:link")
AIDA_linkTarget == URIRef("aida:linkTarget")

system_uri == "http://system"
system_node == URIRef(system_uri)
base_uri == "http://base"

(* --------------------------- the knowledge base ------------------------ *)
Node(tag, name) == [tag |-> tag, name |-> name]
e1 == Node("EntityNode", "e1")
e2 == Node("EntityNode", "e2")
v1 == Node("EventNode", "v1")
s1 == Node("StringNode", "s1")
x1 == Node("Node", "x1")
NoNode == Node("", "")
Nodes == {e1, e2, v1, s1, x1}

PER == <<"P", "E", "R">>
ORG == <<"O", "R", "G">>
LOC == <<"L", "O", "C">>
FAC == <<"F", "A", "C">>
GPE == <<"G", "P", "E">>
STRING_UC == <<"S", "T", "R", "I", "N", "G">>
String_MC == <<"S", "t", "r", "i", "n", "g">>
REL == <<"r", "e", "l">>
QUAL == <<"p", "e", "r", ":", "x">>
QUAL_LUT == <<"o", "r", "g", ":", "y">>
UNKNOWN == <<"p", "e", "r">>
Codes == {PER, ORG, LOC, FAC, GPE, STRING_UC, String_MC, REL, QUAL, QUAL_LUT, UNKNOWN}

AIDA_PROGRAM_ONTOLOGY(name) == URIRef(name)
AIDA_PROGRAM_ONTOLOGY_LUT ==
    (REL :> AIDA_PROGRAM_ONTOLOGY("aidaProgramOntology:rel")) @@
    (QUAL_LUT :> AIDA_PROGRAM_ONTOLOGY("aidaProgramOntology:org_y"))

CANONICAL_MENTION == "canonical_mention"
Span(start, end) == [start |-> start, end |-> end]
Provenance(doc_id, spans) == [doc_id |-> doc_id, predicate_justifications |-> spans]
P0 == Provenance("D1", <<>>)
P1 == Provenance("D1", <<Span(10, 15)>>)
P2 == Provenance("D2", <<Span(0, 5), Span(0, 5)>>)
P3 == Provenance("D2", <<Span(0, 5), Span(7, 9), Span(0, 5)>>)

Kinds == {"TypeAssertion", "RelationAssertion", "EventMentionAssertion",
          "EntityMentionAssertion", "LinkAssertion"}

\* One record shape for the five assertion classes: code is TypeAssertion.obj,
\* RelationAssertion.relation or EventMentionAssertion.argument_role; obj is
\* RelationAssertion.obj or EventMentionAssertion.argument; string is
\* EntityMentionAssertion.obj or LinkAssertion.global_id; type is
\* EntityMentionAssertion.type.
Assertion(kind, sbj, code, obj, type, string, just) ==
    [kind |-> kind, sbj |-> sbj, code |-> code, obj |-> obj, type |-> type,
     string |-> string, justifications |-> just]
TypeAssertion(sbj, code) == Assertion("TypeAssertion", sbj, code, NoNode, "", "", P0)
RelationAssertion(sbj, rel, obj, just) ==
    Assertion("RelationAssertion", sbj, rel, obj, "", "", just)
EventMentionAssertion(sbj, role, arg, just) ==
    Assertion("EventMentionAssertion", sbj, role, arg, "", "", just)
EntityMentionAssertion(sbj, type, string, just) ==
    Assertion("EntityMentionAssertion", sbj, <<>>, NoNode, type, string, just)
LinkAssertion(sbj, global_id) == Assertion("LinkAssertion", sbj, <<>>, NoNode, "", global_id, P0)
NoAssertion == Assertion("", NoNode, <<>>, NoNode, "", "", P0)

\* <<assertion, confidence>>: an element of cs_kb.all_assertions with its entry
\* (or none) in cs_kb.assertions_to_confidences.
KBEntries ==
    {<<TypeAssertion(e1, c), None>> : c \in Codes}
    \cup {<<TypeAssertion(v1, PER), None>>, <<TypeAssertion(e1, PER), Some(9)>>,
          <<TypeAssertion(e1, PER), Some(0)>>, <<TypeAssertion(v1, PER), Some(9)>>}
    \cup {<<RelationAssertion(e1, REL, e2, P1), cf>> : cf \in {None, Some(0), Some(9)}}
    \cup {<<RelationAssertion(v1, REL, e1, P1), Some(9)>>,
          <<RelationAssertion(e1, UNKNOWN, e2, P0), Some(9)>>,
          <<RelationAssertion(e1, REL, s1, P2), Some(9)>>,
          <<RelationAssertion(e2, REL, e1, P3), Some(9)>>}
    \cup {<<EventMentionAssertion(v1, REL, e1, P1), None>>,
          <<EventMentionAssertion(v1, REL, e1, P1), Some(9)>>,
          <<EventMentionAssertion(e1, REL, e2, P1), Some(9)>>}
    \cup {<<EntityMentionAssertion(e1, CANONICAL_MENTION, "Biden", P1), cf>> :
             cf \in {None, Some(0), Some(9)}}
    \cup {<<EntityMentionAssertion(e2, "nominal_mention", "he", P2), Some(9)>>,
          <<EntityMentionAssertion(v1, CANONICAL_MENTION, "", P1), Some(9)>>}
    \cup {<<LinkAssertion(e1, "Q1"), None>>, <<LinkAssertion(e1, "Q1"), Some(9)>>,
          <<LinkAssertion(x1, "Q1"), None>>}

(* ------------------ the state one loop pass works on ------------------- *)
\* exc is the exception raised ("" for none), ret the value the last call
\* returned, ok the value the translator returned.
NoExc == ""

\* a closure whose variable `assertion` is still the assertion of the pass before
Ctx_of_previous_pass(a) ==
    [g |-> g, object_to_uri |-> object_to_uri, next_id |-> next_id, bnodes |-> bnodes,
     assertion |-> last.assertion, exc |-> NoExc, ret |-> BNodeTerm(-1), ok |-> FALSE,
     resolutions |-> resolutions, minted |-> minted, side |-> side, onto |-> <<>>,
     reg |-> <<>>]

\* assertion is the loop variable of line 317, which the closures read
Ctx(a) ==
    [g |-> g, object_to_uri |-> object_to_uri, next_id |-> next_id, bnodes |-> bnodes,
     assertion |-> a, exc |-> NoExc, ret |-> BNodeTerm(-1), ok |-> FALSE,
     resolutions |-> resolutions, minted |-> minted, side |-> side, onto |-> <<>>,
     reg |-> <<>>]

\* `c; F(c)`: the statements F run after c unless c raised
Then(c, F(_)) == IF c.exc # NoExc THEN c ELSE F(c)
Raise(c, e) == [c EXCEPT !.exc = e]
Return(c, b) == [c EXCEPT !.ok = b]
add(c, s, p, o) == [c EXCEPT !.g = @ \cup {<<s, p, o>>}]
Made(c, role) == [c EXCEPT !.side = @ \cup {<<role, c.ret>>}]

\* flexnlp.utils.preconditions
check_arg(c, cond) == IF cond THEN c ELSE Raise(c, "check_arg")
check_not_none(c, v) == IF v # None THEN c ELSE Raise(c, "check_not_none")

BNode(c) == [c EXCEPT !.ret = BNodeTerm(c.bnodes), !.bnodes = @ + 1]

Generators == {"entities", "events", "strings", "assertions"}
Strategy(gen) ==
    IF has_base_uri /\ gen \in {"entities", "events", "assertions"}
    THEN "SequentialIDNodeGenerator" ELSE "BlankNodeGenerator"

\* generators that were all given base_uri itself, without the sub-roots
SequentialIDNodeGenerator_one_root(c, gen) ==
    [c EXCEPT !.ret = URIRefSeq(base_uri, c.next_id[gen]),
              !.next_id[gen] = @ + 1]

\* the generator gen was given base_uri + "/" + gen by from_parameters
SequentialIDNodeGenerator_next_node(c, gen) ==
    [c EXCEPT !.ret = URIRefSeq(base_uri \o "/" \o gen, c.next_id[gen]),
              !.next_id[gen] = @ + 1]

next_node(c, gen) ==
    IF Strategy(gen) = "SequentialIDNodeGenerator"
    THEN SequentialIDNodeGenerator_next_node(c, gen)
    ELSE BNode(c)

(* ------------------------------ helpers -------------------------------- *)
\* mark a triple as having been generated by this system
associate_with_system(c, identifier) == add(c, identifier, AIDA_system, system_node)

\* mark an assertion with confidence from this system
mark_single_assertion_confidence(c, reified_assertion, confidence) ==
    Then(Made(BNode(c), "confidence"), LAMBDA c1 :
        LET confidence_blank_node == c1.ret
            d1 == add(c1, reified_assertion, AIDA_confidence, confidence_blank_node)
            d2 == add(d1, confidence_blank_node, AIDA_confidenceValue, LiteralNum(confidence))
        IN  add(d2, confidence_blank_node, AIDA_system, system_node))

GeneratorOf(node) ==
    CASE node.tag = "EntityNode" -> "entities"
      [] node.tag = "EventNode" -> "events"
      [] node.tag = "StringNode" -> "strings"

\* object_to_uri[node] = uri
Store(c, node) ==
    [c EXCEPT !.object_to_uri = (node :> c.ret) @@ @, !.minted = @ \cup {<<node, c.ret>>}]
\* return object_to_uri[node]
Lookup(c, node) ==
    [c EXCEPT !.ret = c.object_to_uri[node],
              !.resolutions = @ \cup {<<idx, node, c.object_to_uri[node]>>}]

\* to_identifier without `if node not in object_to_uri`
to_identifier_uncached(c, node) ==
    Then(check_arg(c, node.tag \in {"EntityNode", "EventNode", "StringNode"}), LAMBDA c1 :
        Lookup(Store(next_node(c1, GeneratorOf(node)), node), node))

\* converts a ColdStart object to an RDF identifier; the same identifier is
\* returned if the node has been converted before
to_identifier(c, node) ==
    Then(check_arg(c, node.tag \in {"EntityNode", "EventNode", "StringNode"}), LAMBDA c1 :
        IF node \notin DOMAIN c1.object_to_uri
        THEN Lookup(Store(next_node(c1, GeneratorOf(node)), node), node)
        ELSE Lookup(c1, node))

\* the loop body with the end offset written as it is in the span
justify_end_as_is(c, entity, provenance, justification, string, confidence) ==
    Then(Made(BNode(c), "provenance"), LAMBDA c1 :
    Then(IF confidence # None /\ confidence[1] # 0
         THEN mark_single_assertion_confidence(c1, c1.ret, confidence[1])
         ELSE c1, LAMBDA c2 :
        LET d1 == associate_with_system(c2, c1.ret)
            d2 == add(d1, c1.ret, RDF_type, AIDA_TextProvenance)
            d3 == add(d2, c1.ret, AIDA_source, Literal(provenance.doc_id))
            d4 == add(d3, c1.ret, AIDA_startOffset, LiteralNum(justification.start))
            d5 == add(d4, c1.ret, AIDA_endOffsetInclusive, LiteralNum(justification.end))
            d6 == add(d5, entity, AIDA_justifiedBy, c1.ret)
        IN  Then(d6, LAMBDA c3 :
                IF string # None /\ string[1] # ""
                THEN add(c3, c1.ret, SKOS_prefLabel, Literal(string[1]))
                ELSE c3)))

\* the body of `for justification in provenance.predicate_justifications`
justify(c, entity, provenance, justification, string, confidence) ==
    Then(Made(BNode(c), "provenance"), LAMBDA c1 :
    Then(IF confidence # None /\ confidence[1] # 0
         THEN mark_single_assertion_confidence(c1, c1.ret, confidence[1])
         ELSE c1, LAMBDA c2 :
        LET justification_node == c1.ret
            d1 == associate_with_system(c2, justification_node)
            d2 == add(d1, justification_node, RDF_type, AIDA_TextProvenance)
            d3 == add(d2, justification_node, AIDA_source, Literal(provenance.doc_id))
            d4 == add(d3, justification_node, AIDA_startOffset,
                      LiteralNum(justification.start))
            \* +1 because Span end is exclusive but interchange format is inclusive
            d5 == add(d4, justification_node, AIDA_endOffsetInclusive,
                      LiteralNum(justification.end + 1))
            d6 == add(d5, entity, AIDA_justifiedBy, justification_node)
        IN  \* put mention string as the prefLabel of the justification
            Then(d6, LAMBDA c3 :
                IF string # None /\ string[1] # ""
                THEN add(c3, justification_node, SKOS_prefLabel, Literal(string[1]))
                ELSE c3)))

RECURSIVE justify_all(_, _, _, _, _, _)
justify_all(c, entity, provenance, spans, string, confidence) ==
    IF spans = <<>> THEN c
    ELSE justify_all(justify(c, entity, provenance, Head(spans), string, confidence),
                     entity, provenance, Tail(spans), string, confidence)

\* convert a ColdStart justification to RDF; reg records the call
register_justifications(c, entity, provenance, string, confidence) ==
    justify_all([c EXCEPT !.reg = Append(@, <<entity, provenance, string, confidence>>)],
                entity, provenance, provenance.predicate_justifications,
                string, confidence)

NotImplementedError(msg) == <<"NotImplementedError", msg, 0>>
HasColon(ontology_type) == \E i \in 1..Len(ontology_type) : ontology_type[i] = ":"

\* to_ontology_type that looks the table up before it tests for ':'
ontology_type_of_table_first(ontology_type) ==
    IF ontology_type \in DOMAIN AIDA_PROGRAM_ONTOLOGY_LUT
    THEN AIDA_PROGRAM_ONTOLOGY_LUT[ontology_type]
    ELSE IF HasColon(ontology_type) THEN NotImplementedError("Not implemented yet")
    ELSE CASE ontology_type = PER -> AIDA_PROGRAM_ONTOLOGY("aidaProgramOntology:Person")
           [] ontology_type = ORG -> AIDA_PROGRAM_ONTOLOGY("aidaProgramOntology:Organization")
           [] ontology_type = LOC -> AIDA_PROGRAM_ONTOLOGY("aidaProgramOntology:Location")
           [] ontology_type = FAC -> AIDA_PROGRAM_ONTOLOGY("aidaProgramOntology:Facility")
           [] ontology_type = GPE ->
                  AIDA_PROGRAM_ONTOLOGY("aidaProgramOntology:GeopoliticalEntity")
           [] ontology_type \in {STRING_UC, String_MC} ->
                  AIDA_PROGRAM_ONTOLOGY("aidaProgramOntology:String")
           [] OTHER -> NotImplementedError("Cannot interpret ontology type")

\* the value to_ontology_type returns, or the error it raises
ontology_type_of(ontology_type) ==
    IF HasColon(ontology_type) THEN NotImplementedError("Not implemented yet")
    ELSE IF ontology_type = PER
         THEN AIDA_PROGRAM_ONTOLOGY("aidaProgramOntology:Person")
    ELSE IF ontology_type = ORG
         THEN AIDA_PROGRAM_ONTOLOGY("aidaProgramOntology:Organization")
    ELSE IF ontology_type = LOC
         THEN AIDA_PROGRAM_ONTOLOGY("aidaProgramOntology:Location")
    ELSE IF ontology_type = FAC
         THEN AIDA_PROGRAM_ONTOLOGY("aidaProgramOntology:Facility")
    ELSE IF ontology_type = GPE
         THEN AIDA_PROGRAM_ONTOLOGY("aidaProgramOntology:GeopoliticalEntity")
    ELSE IF ontology_type = STRING_UC \/ ontology_type = String_MC
         THEN AIDA_PROGRAM_ONTOLOGY("aidaProgramOntology:String")
    ELSE IF ontology_type \in DOMAIN AIDA_PROGRAM_ONTOLOGY_LUT
         THEN AIDA_PROGRAM_ONTOLOGY_LUT[ontology_type]
    ELSE NotImplementedError("Cannot interpret ontology type")

\* to_ontology_type called in the loop pass: onto records the call
Resolved(c, ontology_type, r) ==
    IF r[1] = "NotImplementedError"
    THEN [c EXCEPT !.onto = Append(@, <<ontology_type, r>>), !.exc = r[2]]
    ELSE [c EXCEPT !.onto = Append(@, <<ontology_type, r>>), !.ret = r]
to_ontology_type(c, ontology_type) == Resolved(c, ontology_type, ontology_type_of(ontology_type))

(* --------------------------- the translators --------------------------- *)
\* translate_type that makes its assertion node before it tests the subject
translate_type_node_first(c, cs_assertion, confidence) ==
    Then(check_arg(c, confidence = None), LAMBDA c1 :
    Then(Made(next_node(c1, "assertions"), "assertion"), LAMBDA c2 :
        IF cs_assertion.sbj.tag = "EntityNode"
        THEN Then(to_identifier(c2, cs_assertion.sbj), LAMBDA c3 :
             Then(to_ontology_type(c3, cs_assertion.code), LAMBDA c4 :
                 LET d1 == add(c4, c2.ret, RDF_type, RDF_Statement)
                     d2 == add(d1, c2.ret, RDF_subject, c3.ret)
                     d3 == add(d2, c2.ret, RDF_predicate, RDF_type)
                     d4 == add(d3, c2.ret, RDF_object, c4.ret)
                 IN  Return(associate_with_system(d4, c2.ret), TRUE)))
        ELSE Return(c2, FALSE)))

\* translate_type without its check_arg
translate_type_unchecked(c, cs_assertion, confidence) ==
    IF cs_assertion.sbj.tag = "EntityNode"
    THEN Then(Made(next_node(c, "assertions"), "assertion"), LAMBDA c2 :
         Then(to_identifier(c2, cs_assertion.sbj), LAMBDA c3 :
         Then(to_ontology_type(c3, cs_assertion.code), LAMBDA c4 :
             LET d1 == add(c4, c2.ret, RDF_type, RDF_Statement)
                 d2 == add(d1, c2.ret, RDF_subject, c3.ret)
                 d3 == add(d2, c2.ret, RDF_predicate, RDF_type)
                 d4 == add(d3, c2.ret, RDF_object, c4.ret)
             IN  Return(associate_with_system(d4, c2.ret), TRUE))))
    ELSE Return(c, FALSE)

\* translate ColdStart type assertions
translate_type(c, cs_assertion, confidence) ==
    Then(check_arg(c, confidence = None), LAMBDA c1 :
        IF cs_assertion.sbj.tag = "EntityNode"
        THEN Then(Made(next_node(c1, "assertions"), "assertion"), LAMBDA c2 :
             Then(to_identifier(c2, cs_assertion.sbj), LAMBDA c3 :
             Then(to_ontology_type(c3, cs_assertion.code), LAMBDA c4 :
                 LET rdf_assertion == c2.ret
                     entity == c3.ret
                     ontology_type == c4.ret
                     d1 == add(c4, rdf_assertion, RDF_type, RDF_Statement)
                     d2 == add(d1, rdf_assertion, RDF_subject, entity)
                     d3 == add(d2, rdf_assertion, RDF_predicate, RDF_type)
                     d4 == add(d3, rdf_assertion, RDF_object, ontology_type)
                 IN  Return(associate_with_system(d4, rdf_assertion), TRUE))))
        ELSE \* TODO: handle events, etc.
             Return(c1, FALSE))

\* `if confidence is not None:` of translate_relation, translate_event_argument
\* and translate_link
attach_confidence(c, reified, confidence) ==
    IF confidence # None
    THEN Then(Made(BNode(c), "confidence"), LAMBDA c1 :
             LET confidence_node == c1.ret
                 d1 == add(c1, reified, AIDA_confidence, confidence_node)
             IN  add(d1, confidence_node, AIDA_confidenceValue, LiteralNum(confidence[1])))
    ELSE c

\* translate_relation that adds the subject and the object before it resolves
\* the relation code
translate_relation_type_last(c, cs_assertion, confidence) ==
    Then(check_not_none(c, confidence), LAMBDA c1 :
        IF cs_assertion.sbj.tag = "EntityNode"
        THEN Then(to_identifier(c1, cs_assertion.sbj), LAMBDA c2 :
             Then(to_identifier(c2, cs_assertion.obj), LAMBDA c3 :
             Then(Made(next_node(c3, "assertions"), "assertion"), LAMBDA c4 :
             Then(add(add(c4, c4.ret, RDF_subject, c2.ret), c4.ret, RDF_object, c3.ret),
                  LAMBDA c5 :
             Then(to_ontology_type(c5, cs_assertion.code), LAMBDA c6 :
                 LET d1 == add(c6, c4.ret, RDF_type, c6.ret)
                     d4 == attach_confidence(d1, c4.ret, confidence)
                 IN  Return(register_justifications(d4, c4.ret,
                                cs_assertion.justifications, None, None), TRUE))))))
        ELSE Return(c1, TRUE))

\* translate ColdStart relations
translate_relation(c, cs_assertion, confidence) ==
    Then(check_not_none(c, confidence), LAMBDA c1 :
        IF cs_assertion.sbj.tag = "EntityNode"
        THEN Then(to_identifier(c1, cs_assertion.sbj), LAMBDA c2 :
             Then(to_identifier(c2, cs_assertion.obj), LAMBDA c3 :
             Then(Made(next_node(c3, "assertions"), "assertion"), LAMBDA c4 :
             Then(to_ontology_type(c4, cs_assertion.code), LAMBDA c5 :
                 LET sbj == c2.ret
                     obj == c3.ret
                     rdf_assertion == c4.ret
                     d1 == add(c5, rdf_assertion, RDF_type, c5.ret)
                     d2 == add(d1, rdf_assertion, RDF_subject, sbj)
                     d3 == add(d2, rdf_assertion, RDF_object, obj)
                     d4 == attach_confidence(d3, rdf_assertion, confidence)
                 IN  Return(register_justifications(d4, rdf_assertion,
                                cs_assertion.justifications, None, None), TRUE)))))
        ELSE Return(c1, TRUE))

translate_event_argument(c, cs_assertion, confidence) ==
    Then(check_not_none(c, confidence), LAMBDA c1 :
        IF cs_assertion.sbj.tag = "EventNode"
        THEN Then(to_identifier(c1, cs_assertion.sbj), LAMBDA c2 :
             Then(to_identifier(c2, cs_assertion.obj), LAMBDA c3 :
             Then(Made(next_node(c3, "assertions"), "assertion"), LAMBDA c4 :
             Then(to_ontology_type(c4, cs_assertion.code), LAMBDA c5 :
                 LET sbj == c2.ret
                     obj == c3.ret
                     rdf_assertion == c4.ret
                     d1 == add(c5, rdf_assertion, RDF_type, c5.ret)
                     d2 == add(d1, rdf_assertion, RDF_subject, sbj)
                     d3 == add(d2, rdf_assertion, RDF_object, obj)
                     d4 == attach_confidence(d3, rdf_assertion, confidence)
                 IN  Return(register_justifications(d4, rdf_assertion,
                                cs_assertion.justifications, None, None), TRUE)))))
        ELSE Return(c1, TRUE))

\* translate ColdStart entity mentions; the subject is read from the loop
\* variable `assertion` of convert_coldstart_to_gaia, not from cs_assertion
translate_entity_mention(c, cs_assertion, confidence) ==
    Then(check_not_none(c, confidence), LAMBDA c1 :
    Then(to_identifier(c1, c1.assertion.sbj), LAMBDA c2 :
        LET entity_uri == c2.ret
            d1 == associate_with_system(c2, entity_uri)
            \* a canonical mention makes a skos:preferredLabel triple
            d2 == IF cs_assertion.type = CANONICAL_MENTION
                  THEN add(d1, entity_uri, SKOS_prefLabel, Literal(cs_assertion.string))
                  ELSE d1
        IN  Return(register_justifications(d2, entity_uri, cs_assertion.justifications,
                                           Some(cs_assertion.string), confidence), TRUE)))

\* translate ColdStart link assertions
translate_link(c, cs_assertion, confidence) ==
    Then(to_identifier(c, cs_assertion.sbj), LAMBDA c1 :
    Then(Made(BNode(c1), "link"), LAMBDA c2 :
        LET entity_uri == c1.ret
            link_assertion == c2.ret
            d1 == add(c2, entity_uri, AIDA_link, link_assertion)
            d2 == add(d1, link_assertion, AIDA_linkTarget, Literal(cs_assertion.string))
        IN  Return(attach_confidence(d2, link_assertion, confidence), TRUE)))

\* map each ColdStart assertion we know how to translate to its translation function
assertions_to_translator(class) ==
    CASE class = "TypeAssertion" -> "translate_type"
      [] class = "EntityMentionAssertion" -> "translate_entity_mention"
      [] class = "LinkAssertion" -> "translate_link"
      [] class = "RelationAssertion" -> "translate_relation"
      [] OTHER -> "None"

Call(translator, c, assertion, confidence) ==
    CASE translator = "translate_type" -> translate_type(c, assertion, confidence)
      [] translator = "translate_entity_mention" ->
             translate_entity_mention(c, assertion, confidence)
      [] translator = "translate_link" -> translate_link(c, assertion, confidence)
      [] translator = "translate_relation" -> translate_relation(c, assertion, confidence)
      [] translator = "translate_event_argument" ->
             translate_event_argument(c, assertion, confidence)

\* one pass of the for loop: the state after it, ok = the assertion was translated
loop_body(c, assertion, confidence) ==
    IF assertions_to_translator(assertion.kind) = "None" THEN Return(c, FALSE)
    ELSE Call(assertions_to_translator(assertion.kind), c, assertion, confidence)

(* ------------------------------- actions ------------------------------- *)
\* a loop that goes on after a pass raised
pc_after_caught(c) == "running"

\* the for loop has no handler: an exception raised in a pass leaves the call
pc_after(c) == IF c.exc # NoExc THEN "failed" ELSE "running"

\* generators made anew by each call
generators_fresh(ids) == [gen \in DOMAIN ids |-> 0]

\* the generators are attributes of the converter, made once by from_parameters:
\* a call of convert_coldstart_to_gaia goes on from the counters it finds
generators_at_call(ids) == ids

\* the number of tokens the generators and BNode() have made so far
TokensMade(ids, blank) == ids["entities"] + ids["events"] + ids["assertions"] + blank

NoLast ==
    [assertion |-> NoAssertion, confidence |-> None, translator |-> "", ret |-> "",
     exc |-> NoExc, g0 |-> {}, u0 |-> [k \in Kinds |-> 0], onto |-> <<>>,
     reg |-> <<>>, tokens0 |-> 0, tokens |-> 0]

Init ==
    /\ has_base_uri \in BOOLEAN
    /\ next_id = [gen \in {"entities", "events", "assertions"} |-> 0]
    /\ bnodes = 0
    /\ pc = "idle"
    /\ g = {}
    /\ object_to_uri = [x \in {} |-> x]
    /\ untranslatable_assertions = [k \in Kinds |-> 0]
    /\ run = 0
    /\ n = 0
    /\ idx = 0
    /\ last = NoLast
    /\ resolutions = {}
    /\ minted = {}
    /\ side = {}
    /\ silent = [k \in Kinds |-> 0]
    /\ start_id = next_id
    /\ prev_tokens = {}

\* the tokens the four generators made in this call
GeneratorTokens == {m[2] : m \in minted} \cup {m[2] : m \in {x \in side : x[1] = "assertion"}}

\* a call of convert_coldstart_to_gaia begins
Convert ==
    /\ pc \in {"idle", "done", "failed"}
    /\ run < MaxRuns
    /\ run' = run + 1
    /\ pc' = "running"
    /\ object_to_uri' = [x \in {} |-> x]
    /\ untranslatable_assertions' = [k \in Kinds |-> 0]
    /\ g' = {}
    /\ idx' = 0
    /\ last' = NoLast
    /\ resolutions' = {}
    /\ minted' = {}
    /\ side' = {}
    /\ silent' = [k \in Kinds |-> 0]
    /\ prev_tokens' = prev_tokens \cup GeneratorTokens
    /\ next_id' = generators_at_call(next_id)
    /\ start_id' = generators_at_call(next_id)
    /\ UNCHANGED <<has_base_uri, bnodes, n>>

\* one pass of `for assertion in cs_kb.all_assertions`
Translate ==
    /\ pc = "running"
    /\ n < MaxAssertions
    /\ \E entry \in KBEntries :
         LET assertion == entry[1]
             confidence == entry[2]
             c == loop_body(Ctx(assertion), assertion, confidence)
             raised == c.exc # NoExc
         IN  /\ pc' = pc_after(c)
             /\ g' = c.g
             /\ object_to_uri' = c.object_to_uri
             /\ next_id' = c.next_id
             /\ bnodes' = c.bnodes
             /\ untranslatable_assertions' =
                  IF ~raised /\ ~c.ok
                  THEN [untranslatable_assertions EXCEPT ![assertion.kind] = @ + 1]
                  ELSE untranslatable_assertions
             /\ resolutions' = c.resolutions
             /\ minted' = c.minted
             /\ side' = c.side
             /\ silent' = IF ~raised /\ c.g = g
                          THEN [silent EXCEPT ![assertion.kind] = @ + 1] ELSE silent
             /\ last' = [assertion |-> assertion, confidence |-> confidence,
                         translator |-> assertions_to_translator(assertion.kind),
                         ret |-> IF raised THEN "raise" ELSE IF c.ok THEN "True" ELSE "False",
                         exc |-> c.exc, g0 |-> g, u0 |-> untranslatable_assertions,
                         onto |-> c.onto, reg |-> c.reg,
                         tokens0 |-> TokensMade(next_id, bnodes),
                         tokens |-> TokensMade(c.next_id, c.bnodes)]
    /\ idx' = idx + 1
    /\ n' = n + 1
    /\ UNCHANGED <<has_base_uri, run, start_id, prev_tokens>>

\* the loop ends; the graph is returned
Finish ==
    /\ pc = "running"
    /\ pc' = "done"
    /\ UNCHANGED <<has_base_uri, next_id, bnodes, g, object_to_uri, untranslatable_assertions,
                   run, n, idx, last, resolutions, minted, side, silent, start_id, prev_tokens>>

Next == Convert \/ Translate \/ Finish

Spec == Init /\ [][Next]_vars

(* ------------------------------- claims -------------------------------- *)
LastIs(kind) == last.assertion.kind = kind
Zero == [k \in Kinds |-> 0]

\* C1: identity stability: within one call every resolution of a source node
\* returns the same token, and a token is made for a node at most once.
C1_IdentityStability ==
    /\ \A p, q \in resolutions : p[2] = q[2] => p[3] = q[3]
    /\ \A p, q \in minted : p[1] = q[1] => p = q
    /\ \A p \in resolutions : <<p[2], p[3]>> \in minted
\* e1 is resolved by two assertions of different kinds
C1_Witness ==
    /\ \E p, q \in resolutions : p[2] = e1 /\ q[2] = e1 /\ p[1] # q[1]
    /\ LastIs("RelationAssertion")
    /\ idx = 2

\* C2: a Relation, Event-argument or Entity-mention assertion with no
\* confidence makes the conversion fail and adds no triples.
C2_RequiredConfidence ==
    (/\ last.assertion.kind \in {"RelationAssertion", "EventMentionAssertion",
                                 "EntityMentionAssertion"}
     /\ last.confidence = None)
    => (pc = "failed" /\ g = last.g0)

\* C3: a Relation assertion whose subject is no Entity node, and an
\* Event-argument assertion whose subject is no Event node, is declined: the
\* translator returns False, no triples are added and the count of its kind
\* goes up by one.
C3_DeclineRule ==
    (/\ last.confidence # None
     /\ \/ LastIs("RelationAssertion") /\ last.assertion.sbj.tag # "EntityNode"
        \/ LastIs("EventMentionAssertion") /\ last.assertion.sbj.tag # "EventNode")
    => /\ last.ret = "False"
       /\ g = last.g0
       /\ untranslatable_assertions[last.assertion.kind] = last.u0[last.assertion.kind] + 1

TranslatorOf(kind) ==
    CASE kind = "TypeAssertion" -> "translate_type"
      [] kind = "RelationAssertion" -> "translate_relation"
      [] kind = "EventMentionAssertion" -> "translate_event_argument"
      [] kind = "EntityMentionAssertion" -> "translate_entity_mention"
      [] kind = "LinkAssertion" -> "translate_link"
      [] OTHER -> ""

\* C4: each of the five kinds is dispatched to its own translator; an
\* Event-argument assertion with an Event subject, a resolvable role and a
\* confidence adds its statement triples and is not counted as untranslatable.
C4_EveryKindDispatched ==
    /\ last.translator = TranslatorOf(last.assertion.kind)
    /\ (/\ LastIs("EventMentionAssertion")
        /\ last.assertion.sbj.tag = "EventNode"
        /\ last.assertion.code = REL
        /\ last.confidence # None)
       => /\ untranslatable_assertions = last.u0
          /\ last.assertion.sbj \in DOMAIN object_to_uri
          /\ last.assertion.obj \in DOMAIN object_to_uri
          /\ \E t \in g :
               /\ t[2] = RDF_type /\ t[3] = AIDA_PROGRAM_ONTOLOGY_LUT[REL]
               /\ <<t[1], RDF_subject, object_to_uri[last.assertion.sbj]>> \in g
               /\ <<t[1], RDF_object, object_to_uri[last.assertion.obj]>> \in g

\* C5: after a completed pass the count of a kind is the number of assertions
\* of that kind that were not translated, and every other assertion produced
\* triples: an assertion is counted exactly if it added nothing.
C5_AggregateReporting ==
    pc = "done" => \A k \in Kinds : untranslatable_assertions[k] = silent[k]

\* C6: at the end of a completed conversion every reified assertion node,
\* provenance node and confidence node has exactly one aida:system triple,
\* to the system node.
C6_SystemProvenance ==
    pc = "done" =>
        \A m \in side :
            m[1] \in {"assertion", "provenance", "confidence"} =>
                {t \in g : t[1] = m[2] /\ t[2] = AIDA_system}
                    = {<<m[2], AIDA_system, system_node>>}

SequentialTokens(tokens, gen) ==
    {t \in tokens : \E k \in 0..next_id[gen] : t = URIRefSeq(base_uri \o "/" \o gen, k)}

C8_TypeConfidenceExclusion ==
    (LastIs("TypeAssertion") /\ last.confidence # None)
    => (pc = "failed" /\ last.exc = "check_arg" /\ g = last.g0 /\ last.onto = <<>>)
\* a Type assertion on an Event subject with a confidence, after a translated assertion
C8_Witness ==
    /\ LastIs("TypeAssertion")
    /\ last.confidence = Some(9)
    /\ last.assertion.sbj = v1
    /\ g # {}

\* C9: a pass fails exactly if it raised; after a failure nothing of the call
\* changes any more, it never becomes done, and only a new call follows.
C9_HardFailureAborts ==
    [][/\ (last'.ret = "raise") => (pc' = "failed")
       /\ (pc = "failed") =>
            /\ pc' # "done"
            /\ run' = run => UNCHANGED <<pc, g, untranslatable_assertions, idx, n,
                                         object_to_uri, next_id, bnodes>>]_vars
\* the call failed in its second pass, after a pass that added triples
C9_Witness == pc = "failed" /\ idx = 2 /\ last.g0 # {} /\ last.ret = "raise"

Person == URIRef("aidaProgramOntology:Person")
Expected(code) ==
    IF \E i \in DOMAIN code : code[i] = ":" THEN <<"NotImplementedError", "Not implemented yet", 0>>
    ELSE CASE code = <<"P", "E", "R">> -> Person
           [] code = <<"O", "R", "G">> -> URIRef("aidaProgramOntology:Organization")
           [] code = <<"L", "O", "C">> -> URIRef("aidaProgramOntology:Location")
           [] code = <<"F", "A", "C">> -> URIRef("aidaProgramOntology:Facility")
           [] code = <<"G", "P", "E">> -> URIRef("aidaProgramOntology:GeopoliticalEntity")
           [] code \in {<<"S", "T", "R", "I", "N", "G">>, <<"S", "t", "r", "i", "n", "g">>} ->
                  URIRef("aidaProgramOntology:String")
           [] OTHER -> IF code \in DOMAIN AIDA_PROGRAM_ONTOLOGY_LUT
                       THEN AIDA_PROGRAM_ONTOLOGY_LUT[code]
                       ELSE <<"NotImplementedError", "Cannot interpret ontology type", 0>>

NewProvenance ==
    {t[1] : t \in {x \in g \ last.g0 : x[2] = RDF_type /\ x[3] = AIDA_TextProvenance}}
ConfidenceNodes(node) == {t[3] : t \in {x \in g : x[1] = node /\ x[2] = AIDA_confidence}}
TermsOf(graph) == {t[1] : t \in graph} \cup {t[3] : t \in graph}

\* C11: whenever register_justifications is called with a confidence c, zero
\* included, each provenance node it makes has exactly one confidence node,
\* which is fresh, records c and is tagged with the system; called with no
\* confidence it makes no confidence node.
C11_ConfidenceOnProvenance ==
    \A i \in DOMAIN last.reg :
        LET confidence == last.reg[i][4]
        IN  \A p \in NewProvenance :
                IF confidence = None
                THEN ConfidenceNodes(p) = {}
                ELSE /\ Cardinality(ConfidenceNodes(p)) = 1
                     /\ \A cn \in ConfidenceNodes(p) :
                          /\ cn \notin TermsOf(last.g0)
                          /\ <<cn, AIDA_confidenceValue, LiteralNum(confidence[1])>> \in g
                          /\ <<cn, AIDA_system, system_node>> \in g

\* the resolutions to_identifier made in the last pass
LastResolutions == {p \in resolutions : p[1] = idx - 1}

Added == g \ last.g0
AddedSubjects == {t[1] : t \in Added}

\* C13: a Type assertion with no confidence on an Entity subject e and a
\* resolvable type code adds exactly the reified statement (token(e), is-a,
\* resolved type) and its system triple, on one assertion node made in this
\* pass, and is reported as translated; on a subject that is no Entity node
\* it is declined and counted, adds no triple and makes no token.
C13_TypeTranslation ==
    (LastIs("TypeAssertion") /\ last.confidence = None) =>
        IF last.assertion.sbj.tag = "EntityNode"
        THEN Expected(last.assertion.code)[1] # "NotImplementedError" =>
               /\ last.ret = "True"
               /\ untranslatable_assertions = last.u0
               /\ last.assertion.sbj \in DOMAIN object_to_uri
               /\ Cardinality(AddedSubjects) = 1
               /\ \A r \in AddedSubjects :
                    /\ Added = {<<r, RDF_type, RDF_Statement>>,
                                <<r, RDF_subject, object_to_uri[last.assertion.sbj]>>,
                                <<r, RDF_predicate, RDF_type>>,
                                <<r, RDF_object, Expected(last.assertion.code)>>,
                                <<r, AIDA_system, system_node>>}
                    /\ <<"assertion", r>> \in side
                    /\ r \notin TermsOf(last.g0) \cup prev_tokens
                    /\ r \notin {m[2] : m \in minted}
               /\ last.tokens - last.tokens0 \in {1, 2}
        ELSE /\ last.ret = "False"
             /\ untranslatable_assertions
                  = [last.u0 EXCEPT !["TypeAssertion"] = @ + 1]
             /\ g = last.g0
             /\ last.tokens = last.tokens0
\* a Type assertion on the Event v1 is declined after the Type assertion on
\* e1 was translated
C13_Witness ==
    /\ LastIs("TypeAssertion")
    /\ last.confidence = None
    /\ last.assertion.sbj = v1
    /\ last.ret = "False"
    /\ \E t \in g : t[2] = RDF_object /\ t[3] = Person
    /\ <<e1, object_to_uri[e1]>> \in minted

\* the objects of the triples (node, predicate, .) of the graph
ObjectsOf(node, predicate) == {t[3] : t \in {x \in g : x[1] = node /\ x[2] = predicate}}

\* C14: called with n spans, register_justifications makes n provenance nodes
\* not seen before, one for each span: the node of the span (start, end) of
\* document d has the start offset start, the inclusive end offset end + 1,
\* the source d, and is the justification of the token the call was given,
\* and of nothing else.
C14_OffsetConversion ==
    \A i \in DOMAIN last.reg :
        LET entity == last.reg[i][1]
            provenance == last.reg[i][2]
            spans == provenance.predicate_justifications
        IN  /\ Cardinality(NewProvenance) = Len(spans)
            /\ \A p \in NewProvenance :
                 p \notin TermsOf(last.g0) /\ <<"provenance", p>> \in side
            /\ \E f \in [DOMAIN spans -> NewProvenance] :
                 /\ \A j, k \in DOMAIN spans : j # k => f[j] # f[k]
                 /\ \A k \in DOMAIN spans :
                      /\ ObjectsOf(f[k], AIDA_startOffset) = {LiteralNum(spans[k].start)}
                      /\ ObjectsOf(f[k], AIDA_endOffsetInclusive)
                           = {LiteralNum(spans[k].end + 1)}
                      /\ ObjectsOf(f[k], AIDA_source) = {Literal(provenance.doc_id)}
                      /\ {t[1] : t \in {x \in g : x[2] = AIDA_justifiedBy /\ x[3] = f[k]}}
                           = {entity}
\* three spans of D2, two of them equal, are encoded on a relation's assertion
\* node, after the span (10, 15) of D1 was encoded with the end offset 16
C14_Witness ==
    /\ LastIs("RelationAssertion")
    /\ Len(last.reg) = 1
    /\ last.reg[1][2] = P3
    /\ <<"assertion", last.reg[1][1]>> \in side
    /\ Cardinality(NewProvenance) = 3
    /\ \E t \in last.g0 : t[2] = AIDA_startOffset /\ t[3] = LiteralNum(P1.predicate_justifications[1].start)
    /\ \E t \in last.g0 :
         /\ t[2] = AIDA_endOffsetInclusive
         /\ t[3] = LiteralNum(P1.predicate_justifications[1].end + 1)

AssertionTokens == {m[2] : m \in {x \in side : x[1] = "assertion"}}

\* C15: in one call, with a base URI or without, two different source nodes
\* never have the same token, whatever their classes, and no token of a
\* source node is the token of a reified assertion node.
C15_TokenInjectivity ==
    /\ \A p, q \in minted : p[2] = q[2] => p[1] = q[1]
    /\ \A x, y \in DOMAIN object_to_uri : x # y => object_to_uri[x] # object_to_uri[y]
    /\ {m[2] : m \in minted} \cap AssertionTokens = {}
    /\ \A x \in DOMAIN object_to_uri : object_to_uri[x] \notin AssertionTokens
\* with a base URI, the first entity, the first event and the first assertion
\* node of the converter have their tokens in one call
C15_Witness ==
    /\ has_base_uri
    /\ run = 1
    /\ {e1, v1} \subseteq DOMAIN object_to_uri
    /\ object_to_uri[e1] = URIRef(base_uri \o "/entities/0")
    /\ object_to_uri[v1] = URIRef(base_uri \o "/events/0")
    /\ URIRef(base_uri \o "/assertions/0") \in AssertionTokens

\* the last pass was given a Type or Relation assertion that gets as far as
\* the resolution of a code that cannot be resolved
VocabularyFailure ==
    /\ Expected(last.assertion.code)[1] = "NotImplementedError"
    /\ last.assertion.sbj.tag = "EntityNode"
    /\ \/ LastIs("TypeAssertion") /\ last.confidence = None
       \/ /\ LastIs("RelationAssertion") /\ last.confidence # None
          /\ last.assertion.obj.tag \in {"EntityNode", "EventNode", "StringNode"}

\* C16: a Type or Relation assertion whose code (with a namespace, or unknown)
\* cannot be resolved fails the call with the graph as it was before the
\* pass; and whenever a pass raised NotImplementedError the graph is the one
\* before the pass.
C16_NoPartialTriples ==
    /\ VocabularyFailure =>
         /\ last.ret = "raise"
         /\ last.exc = Expected(last.assertion.code)[2]
         /\ pc = "failed"
         /\ g = last.g0
    /\ last.exc \in {"Not implemented yet", "Cannot interpret ontology type"} =>
         g = last.g0
\* a Relation assertion with an unknown code failed after it had made tokens,
\* in the second pass of a call whose first pass added triples
C16_Witness ==
    /\ VocabularyFailure
    /\ LastIs("RelationAssertion")
    /\ last.assertion.code = UNKNOWN
    /\ last.g0 # {}
    /\ last.tokens > last.tokens0
    /\ \E a \in AssertionTokens : a \notin TermsOf(g)

====
